---- MODULE Spec2Model ----
(***************************************************************************)
(* JVMCICompiler (src/hotspot/share/jvmci/jvmciCompiler.cpp): lifecycle,   *)
(* bootstrap warm-up, forced-compilation policy and counters, as a state   *)
(* machine.  One thread runs bootstrap(); the compile broker's queue, the  *)
(* compile-worker threads and the policy callers run concurrently.         *)
(***************************************************************************)
EXTENDS Integers, Sequences, FiniteSets, TLC

\* ---------------------------------------------------------------- bounds
MaxMethods == 2
MaxExternal == 1
MaxInitCalls == 3
MaxCalls == 4
MaxExcludeLen == 2
MaxOps == 2

\* ------------------------------------------------------ program constants
\* _methods_compiled / 100
ProgressUnit == 100
\* int hot_count = 10
HotCount == 10
\* qsize before its first assignment in the poll loop
NoPoll == -1

VARIABLES
  \* global flags of the VM
  UseCompiler, EnableJVMCI, UseJVMCICompiler, UseJVMCINativeLibrary,
  PrintBootstrap, CompileTheWorld, mode,
  \* JVMCICompiler fields
  bootstrapping, bootstrap_compilation_request_handled,
  methods_compiled, global_compilation_ticks, compiler_state,
  \* SystemDictionary::Object_klass()->methods()
  objectMethods,
  \* the bootstrap() activation: position, locals, pending exception
  pc, i, qsize, first_round, z, ctwSaved, pending_exception,
  \* CompileBroker: pending jobs of CompLevel_full_optimization, the requests
  \* bootstrap() has made, and the jobs other threads have submitted
  queue, submitted, external,
  \* what the collaborators have been told
  vm_startup_completed, bootstrap_finished_calls, dots, slept,
  \* what bootstrap() has observed so far: a non-zero queue size, the handled
  \* flag set, a failed bootstrap_finished()
  saw_nonzero, saw_handled, finish_failed,
  \* what held when bootstrap() was entered and when its poll loop began
  ctw_at_entry, methods_at_loop_start,
  \* callers of initialize() and compile_method()
  transitions, initCalls, compileCalls, fatal,
  \* compile-worker threads inside the increment functions
  wpc, callsMC, callsTicks,
  \* the last force_comp_at_level_simple() call: inputs and result
  lastForce,
  \* the last report printed by print_timers() / print_hosted_timers()
  tty_report

flagVars == <<UseCompiler, EnableJVMCI, UseJVMCICompiler, UseJVMCINativeLibrary,
              PrintBootstrap, mode, objectMethods>>
fieldVars == <<bootstrapping, bootstrap_compilation_request_handled,
               methods_compiled, global_compilation_ticks, compiler_state>>
bootVars == <<pc, i, qsize, first_round, z, ctwSaved, pending_exception,
              CompileTheWorld, submitted, bootstrap_finished_calls, dots, slept,
              saw_nonzero, saw_handled, finish_failed,
              ctw_at_entry, methods_at_loop_start>>
histVars == <<saw_nonzero, saw_handled, finish_failed>>
entryVars == <<ctw_at_entry, methods_at_loop_start>>
envVars == <<queue, external>>
lifeVars == <<vm_startup_completed, transitions, initCalls, compileCalls, fatal>>
workerVars == <<wpc, callsMC, callsTicks>>
vars == <<flagVars, fieldVars, bootVars, envVars, lifeVars, workerVars, lastForce, tty_report>>

Workers == {"w1", "w2"}
Modules == {"java.base", "jdk.internal.vm.compiler"}
CompLevel_full_optimization == 4
InvocationEntryBci == -1

\* A Method, as far as bootstrap() looks at it.
MethodKinds ==
  { [is_native |-> FALSE, is_static |-> FALSE, is_initializer |-> FALSE],
    [is_native |-> TRUE,  is_static |-> FALSE, is_initializer |-> FALSE],
    [is_native |-> FALSE, is_static |-> TRUE,  is_initializer |-> FALSE],
    [is_native |-> FALSE, is_static |-> FALSE, is_initializer |-> TRUE] }

SeqsUpTo(S, n) == UNION { [1..k -> S] : k \in 0..n }

\* JVMCICompiler::JVMCICompiler()
JVMCICompiler ==
  /\ bootstrapping = FALSE
  /\ bootstrap_compilation_request_handled = FALSE
  /\ methods_compiled = 0
  /\ global_compilation_ticks = 0
  /\ compiler_state = "uninitialized"

\* The filter of line 83 without the is_static test.
qualifies_ignoring_static(mh) == ~mh.is_native /\ ~mh.is_initializer

\* ------------------------------------------------------------- bootstrap()
\* !mh->is_native() && !mh->is_static() && !mh->is_initializer()
qualifies(mh) == ~mh.is_native /\ ~mh.is_static /\ ~mh.is_initializer

\* The arguments of the CompileBroker::compile_method call of bootstrap().
bootstrap_task(idx) ==
  [method |-> idx, osr_bci |-> InvocationEntryBci,
   comp_level |-> CompLevel_full_optimization, hot_method |-> idx,
   hot_count |-> HotCount, reason |-> "Reason_Bootstrap"]

\* CompileBroker::compile_method: the broker queues the request, or declines it.
CompileBroker_compile_method(q, accepted) == IF accepted THEN q + 1 ELSE q

\* CompileBroker::queue_size(CompLevel_full_optimization)
queue_size(q) == q
\* The inner condition without the wait for a first job: 'while (false)'.
inner_again_no_wait(handled, first, qs) == FALSE

\* The inner condition with the first_round test inverted.
inner_again_not_first_round(handled, first, qs) == ~handled /\ ~first /\ qs = 0

\* The condition of the inner do-while: poll again while nothing was seen.
inner_again(handled, first, qs) == ~handled /\ first /\ qs = 0
\* The outer condition as 'while (qsize != 0 && first_round)': one round only.
outer_again_first_round_only(qs) == FALSE

\* The outer condition as 'while (qsize >= 0)': never false.
outer_again_never_done(qs) == TRUE

\* The condition of the outer do-while: keep draining.
outer_again(qs) == qs # 0

\* bootstrap() without the -Xint return of lines 60-63.
bootstrap_enter_without_int_return ==
  /\ pc = "idle" /\ ~fatal
  /\ ctw_at_entry' = CompileTheWorld
  /\ ctwSaved' = CompileTheWorld
  /\ CompileTheWorld' = FALSE
  /\ bootstrapping' = TRUE
  /\ i' = 0
  /\ pc' = "submit"
  /\ UNCHANGED <<flagVars, bootstrap_compilation_request_handled, methods_compiled,
                 global_compilation_ticks, compiler_state, qsize, first_round, z,
                 pending_exception, submitted, bootstrap_finished_calls, dots, slept,
                 envVars, lifeVars, workerVars, lastForce, tty_report,
                 histVars, methods_at_loop_start>>

\* bootstrap() with '_methods_compiled = 0' next to '_bootstrapping = true'.
bootstrap_enter_resets_counter ==
  /\ pc = "idle" /\ ~fatal
  /\ ctw_at_entry' = CompileTheWorld
  /\ IF mode = "int"
       THEN /\ pc' = "returned"
            /\ UNCHANGED <<bootstrapping, CompileTheWorld, ctwSaved, i,
                           methods_compiled>>
       ELSE /\ ctwSaved' = CompileTheWorld
            /\ CompileTheWorld' = FALSE
            /\ bootstrapping' = TRUE
            /\ methods_compiled' = 0
            /\ i' = 0
            /\ pc' = "submit"
  /\ UNCHANGED <<flagVars, bootstrap_compilation_request_handled,
                 global_compilation_ticks, compiler_state, qsize, first_round, z,
                 pending_exception, submitted, bootstrap_finished_calls, dots, slept,
                 envVars, lifeVars, workerVars, lastForce, tty_report,
                 histVars, methods_at_loop_start>>

\* Lines 59-76: the -Xint return; otherwise CompileTheWorld off, flag on.
bootstrap_enter ==
  /\ pc = "idle" /\ ~fatal
  /\ ctw_at_entry' = CompileTheWorld
  /\ IF mode = "int"
       THEN /\ pc' = "returned"
            /\ UNCHANGED <<bootstrapping, CompileTheWorld, ctwSaved, i>>
       ELSE /\ ctwSaved' = CompileTheWorld
            /\ CompileTheWorld' = FALSE
            /\ bootstrapping' = TRUE
            /\ i' = 0
            /\ pc' = "submit"
  /\ UNCHANGED <<flagVars, bootstrap_compilation_request_handled, methods_compiled,
                 global_compilation_ticks, compiler_state, qsize, first_round, z,
                 pending_exception, submitted, bootstrap_finished_calls, dots, slept,
                 envVars, lifeVars, workerVars, lastForce, tty_report,
                 histVars, methods_at_loop_start>>

\* Lines 78-92: one iteration of the loop over Object's methods, or its end.
bootstrap_submit ==
  /\ pc = "submit" /\ ~fatal
  /\ IF i < Len(objectMethods)
       THEN /\ i' = i + 1
            /\ IF qualifies(objectMethods[i + 1])
                 THEN /\ submitted' = Append(submitted, bootstrap_task(i + 1))
                      /\ \E accepted \in BOOLEAN :
                           queue' = CompileBroker_compile_method(queue, accepted)
                 ELSE UNCHANGED <<submitted, queue>>
            /\ UNCHANGED <<pc, first_round, z, methods_at_loop_start>>
       ELSE /\ first_round' = TRUE
            /\ z' = 0
            /\ methods_at_loop_start' = methods_compiled
            /\ pc' = "sleep"
            /\ UNCHANGED <<i, submitted, queue>>
  /\ UNCHANGED <<flagVars, fieldVars, qsize, ctwSaved, pending_exception,
                 CompileTheWorld, bootstrap_finished_calls, dots, slept,
                 external, lifeVars, workerVars, lastForce, tty_report,
                 histVars, ctw_at_entry>>

\* Line 96: os::sleep(THREAD, 100, true)
bootstrap_sleep ==
  /\ pc = "sleep" /\ ~fatal
  /\ slept' = TRUE
  /\ pc' = "poll"
  /\ UNCHANGED <<flagVars, fieldVars, i, qsize, first_round, z, ctwSaved,
                 pending_exception, CompileTheWorld, submitted,
                 bootstrap_finished_calls, dots, envVars, lifeVars, workerVars,
                 lastForce, tty_report, histVars,
                 entryVars>>

\* Line 97: qsize = CompileBroker::queue_size(CompLevel_full_optimization)
bootstrap_poll ==
  /\ pc = "poll" /\ ~fatal
  /\ qsize' = queue_size(queue)
  /\ pc' = "inner"
  /\ saw_nonzero' = (saw_nonzero \/ queue_size(queue) # 0)
  /\ UNCHANGED <<flagVars, fieldVars, i, first_round, z, ctwSaved,
                 pending_exception, CompileTheWorld, submitted,
                 bootstrap_finished_calls, dots, slept, envVars, lifeVars,
                 workerVars, lastForce, tty_report, saw_handled, finish_failed,
                 entryVars>>

\* Lines 98-99: the inner loop's condition, then first_round = false.
bootstrap_inner ==
  /\ pc = "inner" /\ ~fatal
  /\ IF inner_again(bootstrap_compilation_request_handled, first_round, qsize)
       THEN pc' = "sleep" /\ UNCHANGED first_round
       ELSE pc' = "progress" /\ first_round' = FALSE
  /\ saw_handled' = (saw_handled \/ bootstrap_compilation_request_handled)
  /\ UNCHANGED <<flagVars, fieldVars, i, qsize, z, ctwSaved, pending_exception,
                 CompileTheWorld, submitted, bootstrap_finished_calls, dots, slept,
                 envVars, lifeVars, workerVars, lastForce, tty_report, saw_nonzero, finish_failed,
                 entryVars>>

\* The marker loop with the test 'z <= _methods_compiled / 100'.
bootstrap_progress_off_by_one ==
  /\ pc = "progress" /\ ~fatal
  /\ IF PrintBootstrap /\ z <= (methods_compiled \div ProgressUnit)
       THEN z' = z + 1 /\ dots' = dots + 1 /\ UNCHANGED pc
       ELSE pc' = "outer" /\ UNCHANGED <<z, dots>>
  /\ UNCHANGED <<flagVars, fieldVars, i, qsize, first_round, ctwSaved,
                 pending_exception, CompileTheWorld, submitted,
                 bootstrap_finished_calls, slept, envVars, lifeVars, workerVars,
                 lastForce, tty_report, histVars, entryVars>>

\* Lines 100-105: one iteration of the progress-marker loop, or its end.
bootstrap_progress ==
  /\ pc = "progress" /\ ~fatal
  /\ IF PrintBootstrap /\ z < (methods_compiled \div ProgressUnit)
       THEN z' = z + 1 /\ dots' = dots + 1 /\ UNCHANGED pc
       ELSE pc' = "outer" /\ UNCHANGED <<z, dots>>
  /\ UNCHANGED <<flagVars, fieldVars, i, qsize, first_round, ctwSaved,
                 pending_exception, CompileTheWorld, submitted,
                 bootstrap_finished_calls, slept, envVars, lifeVars, workerVars,
                 lastForce, tty_report, histVars,
                 entryVars>>

\* Line 106: while (qsize != 0)
bootstrap_outer ==
  /\ pc = "outer" /\ ~fatal
  /\ pc' = IF outer_again(qsize) THEN "sleep" ELSE "report"
  /\ UNCHANGED <<flagVars, fieldVars, i, qsize, first_round, z, ctwSaved,
                 pending_exception, CompileTheWorld, submitted,
                 bootstrap_finished_calls, dots, slept, envVars, lifeVars,
                 workerVars, lastForce, tty_report, histVars, entryVars>>

\* The end of the loop without '_bootstrapping = false'.
bootstrap_report_keeps_flag ==
  /\ pc = "report" /\ ~fatal
  /\ pc' = "notify"
  /\ UNCHANGED <<flagVars, fieldVars, i, qsize, first_round, z,
                 ctwSaved, pending_exception, CompileTheWorld, submitted,
                 bootstrap_finished_calls, dots, slept, envVars, lifeVars,
                 workerVars, lastForce, tty_report, histVars,
                 entryVars>>

\* The end of the loop with bootstrap_finished() called ahead of
\* '_bootstrapping = false'.
bootstrap_report_notifies_first ==
  /\ pc = "report" /\ ~fatal
  /\ bootstrap_finished_calls' = bootstrap_finished_calls + 1
  /\ bootstrapping' = FALSE
  /\ pc' = "returned"
  /\ CompileTheWorld' = ctwSaved
  /\ UNCHANGED <<flagVars, bootstrap_compilation_request_handled, methods_compiled,
                 global_compilation_ticks, compiler_state, i, qsize, first_round, z,
                 ctwSaved, pending_exception, submitted, dots, slept, envVars,
                 lifeVars, workerVars, lastForce, tty_report, histVars, entryVars>>

\* Lines 108-111: the summary line, then _bootstrapping = false.
bootstrap_report ==
  /\ pc = "report" /\ ~fatal
  /\ bootstrapping' = FALSE
  /\ pc' = "notify"
  /\ UNCHANGED <<flagVars, bootstrap_compilation_request_handled, methods_compiled,
                 global_compilation_ticks, compiler_state, i, qsize, first_round, z,
                 ctwSaved, pending_exception, CompileTheWorld, submitted,
                 bootstrap_finished_calls, dots, slept, envVars, lifeVars,
                 workerVars, lastForce, tty_report, histVars, entryVars>>

\* bootstrap_finished() with the exception cleared instead of CHECKed.
bootstrap_notify_swallows ==
  /\ pc = "notify" /\ ~fatal
  /\ bootstrap_finished_calls' = bootstrap_finished_calls + 1
  /\ \E failed \in BOOLEAN :
       finish_failed' = failed /\ pending_exception' = FALSE
  /\ CompileTheWorld' = ctwSaved
  /\ pc' = "returned"
  /\ UNCHANGED <<flagVars, fieldVars, i, qsize, first_round, z, ctwSaved,
                 submitted, dots, slept, envVars, lifeVars, workerVars, lastForce, tty_report,
                 saw_nonzero, saw_handled,
                 entryVars>>

\* CompileTheWorld restored by an assignment after bootstrap_finished(CHECK)
\* instead of the FlagSetting destructor: skipped when the call fails.
bootstrap_notify_restores_after_check ==
  /\ pc = "notify" /\ ~fatal
  /\ bootstrap_finished_calls' = bootstrap_finished_calls + 1
  /\ \E failed \in BOOLEAN :
       /\ finish_failed' = failed /\ pending_exception' = failed
       /\ CompileTheWorld' = IF failed THEN CompileTheWorld ELSE ctwSaved
  /\ pc' = "returned"
  /\ UNCHANGED <<flagVars, fieldVars, i, qsize, first_round, z, ctwSaved,
                 submitted, dots, slept, envVars, lifeVars, workerVars, lastForce,
                 tty_report, saw_nonzero, saw_handled, entryVars>>

\* Lines 112-113: bootstrap_finished(CHECK); the scoped CompileTheWorld
\* setting is undone on the way out, with or without a pending exception.
bootstrap_notify ==
  /\ pc = "notify" /\ ~fatal
  /\ bootstrap_finished_calls' = bootstrap_finished_calls + 1
  /\ \E failed \in BOOLEAN :
       finish_failed' = failed /\ pending_exception' = failed
  /\ CompileTheWorld' = ctwSaved
  /\ pc' = "returned"
  /\ UNCHANGED <<flagVars, fieldVars, i, qsize, first_round, z, ctwSaved,
                 submitted, dots, slept, envVars, lifeVars, workerVars, lastForce, tty_report, saw_nonzero, saw_handled,
                 entryVars>>

bootstrap ==
  \/ bootstrap_enter
  \/ bootstrap_submit
  \/ bootstrap_sleep
  \/ bootstrap_poll
  \/ bootstrap_inner
  \/ bootstrap_progress
  \/ bootstrap_outer
  \/ bootstrap_report
  \/ bootstrap_notify

\* ------------------------------------------- the broker and its workers
\* Another thread's compile request reaches the same queue.
external_submit ==
  /\ ~fatal /\ external < MaxExternal
  /\ external' = external + 1
  /\ queue' = queue + 1
  /\ UNCHANGED <<flagVars, fieldVars, bootVars, lifeVars, workerVars, lastForce, tty_report>>

\* A compile-worker thread takes a job off the queue.
worker_remove ==
  /\ ~fatal /\ queue > 0
  /\ queue' = queue - 1
  /\ UNCHANGED <<flagVars, fieldVars, bootVars, external, lifeVars, workerVars,
                 lastForce, tty_report>>

\* The external signal that a bootstrap compile request has been handled.
set_bootstrap_compilation_request_handled ==
  /\ ~fatal /\ ~bootstrap_compilation_request_handled
  /\ bootstrap_compilation_request_handled' = TRUE
  /\ UNCHANGED <<flagVars, bootstrapping, methods_compiled,
                 global_compilation_ticks, compiler_state, bootVars, envVars,
                 lifeVars, workerVars, lastForce, tty_report>>

broker ==
  \/ external_submit
  \/ worker_remove
  \/ set_bootstrap_compilation_request_handled

\* ------------------------------------------------------------ initialize()
\* AbstractCompiler::should_perform_init(): FALSE once initialization has
\* been performed.
should_perform_init(st) == st # "initialized"
\* initialize() without the should_perform_init() test.
initialize_without_gate ==
  /\ ~fatal /\ initCalls < MaxInitCalls
  /\ initCalls' = initCalls + 1
  /\ IF ~UseCompiler \/ ~EnableJVMCI \/ ~UseJVMCICompiler
       THEN UNCHANGED <<compiler_state, transitions, vm_startup_completed>>
       ELSE /\ compiler_state' = "initialized"
            /\ transitions' = IF compiler_state = "initialized"
                                THEN transitions ELSE transitions + 1
            /\ vm_startup_completed' = vm_startup_completed + 1
  /\ UNCHANGED <<flagVars, bootstrapping, bootstrap_compilation_request_handled,
                 methods_compiled, global_compilation_ticks, bootVars, envVars,
                 compileCalls, fatal, workerVars, lastForce, tty_report>>

\* initialize() without the UseJVMCICompiler test.
initialize_without_backend_flag ==
  /\ ~fatal /\ initCalls < MaxInitCalls
  /\ initCalls' = initCalls + 1
  /\ IF ~UseCompiler \/ ~EnableJVMCI \/ compiler_state = "initialized"
       THEN UNCHANGED <<compiler_state, transitions, vm_startup_completed>>
       ELSE /\ compiler_state' = "initialized"
            /\ transitions' = transitions + 1
            /\ vm_startup_completed' = vm_startup_completed + 1
  /\ UNCHANGED <<flagVars, bootstrapping, bootstrap_compilation_request_handled,
                 methods_compiled, global_compilation_ticks, bootVars, envVars,
                 compileCalls, fatal, workerVars, lastForce, tty_report>>

\* Lines 47-57.
initialize ==
  /\ ~fatal /\ initCalls < MaxInitCalls
  /\ initCalls' = initCalls + 1
  /\ IF ~UseCompiler \/ ~EnableJVMCI \/ ~UseJVMCICompiler
        \/ ~should_perform_init(compiler_state)
       THEN UNCHANGED <<compiler_state, transitions, vm_startup_completed>>
       ELSE /\ compiler_state' = "initialized"
            /\ transitions' = IF compiler_state = "initialized"
                                THEN transitions ELSE transitions + 1
            /\ vm_startup_completed' = vm_startup_completed + 1
  /\ UNCHANGED <<flagVars, bootstrapping, bootstrap_compilation_request_handled,
                 methods_compiled, global_compilation_ticks, bootVars, envVars,
                 compileCalls, fatal, workerVars, lastForce, tty_report>>
\* compile_method() with an empty body: it returns to its caller.
compile_method_returns ==
  /\ ~fatal /\ compileCalls < 1
  /\ compileCalls' = compileCalls + 1
  /\ UNCHANGED <<flagVars, fieldVars, bootVars, envVars, vm_startup_completed,
                 transitions, initCalls, fatal, workerVars, lastForce, tty_report>>

\* -------------------------------------------------------- compile_method()
\* Lines 148-150: ShouldNotReachHere().
compile_method ==
  /\ ~fatal
  /\ compileCalls' = compileCalls + 1
  /\ fatal' = TRUE
  /\ UNCHANGED <<flagVars, fieldVars, bootVars, envVars, vm_startup_completed,
                 transitions, initCalls, workerVars, lastForce, tty_report>>

\* ---------------------------------------------------------------- counters
\* Atomic::inc on an int: one indivisible read-modify-write.  The counters
\* stay far below 2^31 within MaxCalls, so the wrap-around is not reached.
Atomic_inc(v) == v + 1

\* Line 168: the first increment of inc_methods_compiled().
inc_methods_compiled_1(w) ==
  /\ ~fatal /\ wpc[w] = "idle" /\ callsMC + callsTicks < MaxCalls
  /\ callsMC' = callsMC + 1
  /\ methods_compiled' = Atomic_inc(methods_compiled)
  /\ wpc' = [wpc EXCEPT ![w] = "ticks"]
  /\ UNCHANGED <<flagVars, bootstrapping, bootstrap_compilation_request_handled,
                 global_compilation_ticks, compiler_state, bootVars, envVars,
                 lifeVars, callsTicks, lastForce, tty_report>>
\* The second increment applied to _methods_compiled again.
inc_methods_compiled_2_same_counter(w) ==
  /\ ~fatal /\ wpc[w] = "ticks"
  /\ methods_compiled' = Atomic_inc(methods_compiled)
  /\ wpc' = [wpc EXCEPT ![w] = "idle"]
  /\ UNCHANGED <<flagVars, bootstrapping, bootstrap_compilation_request_handled,
                 global_compilation_ticks, compiler_state, bootVars, envVars,
                 lifeVars, callsMC, callsTicks, lastForce, tty_report>>

\* inc_methods_compiled() without its second increment.
inc_methods_compiled_2_skips_ticks(w) ==
  /\ ~fatal /\ wpc[w] = "ticks"
  /\ wpc' = [wpc EXCEPT ![w] = "idle"]
  /\ UNCHANGED <<flagVars, fieldVars, bootVars, envVars, lifeVars,
                 callsMC, callsTicks, lastForce, tty_report>>

\* Line 169: the second increment of inc_methods_compiled().
inc_methods_compiled_2(w) ==
  /\ ~fatal /\ wpc[w] = "ticks"
  /\ global_compilation_ticks' = Atomic_inc(global_compilation_ticks)
  /\ wpc' = [wpc EXCEPT ![w] = "idle"]
  /\ UNCHANGED <<flagVars, bootstrapping, bootstrap_compilation_request_handled,
                 methods_compiled, compiler_state, bootVars, envVars, lifeVars,
                 callsMC, callsTicks, lastForce, tty_report>>

\* Lines 172-174.
inc_global_compilation_ticks(w) ==
  /\ ~fatal /\ wpc[w] = "idle" /\ callsMC + callsTicks < MaxCalls
  /\ callsTicks' = callsTicks + 1
  /\ global_compilation_ticks' = Atomic_inc(global_compilation_ticks)
  /\ UNCHANGED <<flagVars, bootstrapping, bootstrap_compilation_request_handled,
                 methods_compiled, compiler_state, bootVars, envVars, lifeVars,
                 wpc, callsMC, lastForce, tty_report>>

counters ==
  \E w \in Workers :
    \/ inc_methods_compiled_1(w)
    \/ inc_methods_compiled_2(w)
    \/ inc_global_compilation_ticks(w)

\* ---------------------------------------------- force_comp_at_level_simple()
\* What JVMCI::java_runtime(), probe_HotSpotJVMCIRuntime() and
\* excludeFromJVMCICompilation() can hand back.
Bridges == {"no_runtime", "no_receiver", "no_list", "list"}

\* The scan with the loop bound 'i < length() - 1': the last element unread.
scan_excludeModules_short(excludeModules, k, module) ==
  \E j \in k..(Len(excludeModules) - 1) : excludeModules[j] = module

RECURSIVE scan_excludeModules(_, _, _)
\* Lines 136-140: the scan of excludeModules from index k.
scan_excludeModules(excludeModules, k, module) ==
  IF k > Len(excludeModules) THEN FALSE
  ELSE IF excludeModules[k] = module THEN TRUE
  ELSE scan_excludeModules(excludeModules, k + 1, module)
\* The policy without the _bootstrapping test of lines 116-119.
force_comp_ignoring_bootstrap(boot, nativeLibrary, bridge, excludeModules, module) ==
  IF nativeLibrary THEN FALSE
  ELSE IF bridge # "list" THEN FALSE
  ELSE \E j \in 1..Len(excludeModules) : excludeModules[j] = module

\* The policy without the UseJVMCINativeLibrary test of lines 120-124.
force_comp_ignoring_native_library(boot, nativeLibrary, bridge, excludeModules, module) ==
  IF boot THEN FALSE
  ELSE IF bridge # "list" THEN FALSE
  ELSE \E j \in 1..Len(excludeModules) : excludeModules[j] = module

\* Lines 115-145.
force_comp_at_level_simple(boot, nativeLibrary, bridge, excludeModules, module) ==
  IF boot THEN FALSE
  ELSE IF nativeLibrary THEN FALSE
  ELSE IF bridge = "no_runtime" THEN FALSE
  ELSE IF bridge = "no_receiver" THEN FALSE
  ELSE IF bridge = "no_list" THEN FALSE
  ELSE scan_excludeModules(excludeModules, 1, module)

\* Lines 116-126: JVMCI::java_runtime() is reached only past both returns.
queries_bridge(boot, nativeLibrary) == ~boot /\ ~nativeLibrary

\* A call of force_comp_at_level_simple() from a compilation-policy thread.
force_comp ==
  /\ ~fatal
  /\ \E bridge \in Bridges, module \in Modules,
        excludeModules \in SeqsUpTo(Modules, MaxExcludeLen) :
       /\ (bridge # "list" => excludeModules = <<>>)
       /\ lastForce' =
            [called |-> TRUE, bootstrapping |-> bootstrapping,
             nativeLibrary |-> UseJVMCINativeLibrary, bridge |-> bridge,
             excludeModules |-> excludeModules, module |-> module,
             queried |-> queries_bridge(bootstrapping, UseJVMCINativeLibrary),
             result |-> force_comp_at_level_simple(bootstrapping,
                          UseJVMCINativeLibrary, bridge, excludeModules, module)]
  /\ UNCHANGED <<flagVars, fieldVars, bootVars, envVars, lifeVars, workerVars,
                 tty_report>>

\* ------------------------------------------------------------ timer reports
\* Lines 153-158: reads stats()->total_time() and _codeInstallTimer, prints.
print_timers ==
  /\ ~fatal
  /\ tty_report' = "timers"
  /\ UNCHANGED <<flagVars, fieldVars, bootVars, envVars, lifeVars, workerVars,
                 lastForce>>

\* Lines 161-165: reads _hostedCodeInstallTimer, prints.
print_hosted_timers ==
  /\ ~fatal
  /\ tty_report' = "hosted"
  /\ UNCHANGED <<flagVars, fieldVars, bootVars, envVars, lifeVars, workerVars,
                 lastForce>>

\* ----------------------------------------------------------- specifications
NoCall ==
  [called |-> FALSE, bootstrapping |-> FALSE, nativeLibrary |-> FALSE,
   bridge |-> "no_runtime", excludeModules |-> <<>>,
   module |-> "java.base", queried |-> FALSE, result |-> FALSE]

\* One java.lang.Object method table with a single qualifying method.
OneMethod == << [is_native |-> FALSE, is_static |-> FALSE, is_initializer |-> FALSE] >>

\* No operation has been called yet.
AtRest ==
  /\ tty_report = "none"
  /\ ctw_at_entry = FALSE /\ methods_at_loop_start = 0
  /\ pc = "idle" /\ i = 0 /\ qsize = NoPoll /\ first_round = FALSE /\ z = 0
  /\ ctwSaved = FALSE /\ pending_exception = FALSE
  /\ queue = 0 /\ submitted = <<>> /\ external = 0
  /\ vm_startup_completed = 0 /\ transitions = 0
  /\ bootstrap_finished_calls = 0 /\ dots = 0 /\ slept = FALSE
  /\ saw_nonzero = FALSE /\ saw_handled = FALSE /\ finish_failed = FALSE
  /\ initCalls = 0 /\ compileCalls = 0 /\ fatal = FALSE
  /\ wpc = [w \in Workers |-> "idle"] /\ callsMC = 0 /\ callsTicks = 0
  /\ lastForce = NoCall

\* The state after construction, before any operation has run.
Constructed ==
  /\ JVMCICompiler
  /\ AtRest

\* bootstrap() against the broker: any execution mode, any CompileTheWorld
\* setting, any method table of java.lang.Object; the backend is enabled.
Init ==
  /\ UseCompiler = TRUE /\ EnableJVMCI = TRUE /\ UseJVMCICompiler = TRUE
  /\ UseJVMCINativeLibrary = FALSE /\ PrintBootstrap = FALSE
  /\ CompileTheWorld \in BOOLEAN
  /\ mode \in {"int", "mixed"}
  /\ objectMethods \in SeqsUpTo(MethodKinds, MaxMethods)
  /\ Constructed

Next ==
  \/ bootstrap
  \/ broker

Spec == Init /\ [][Next]_vars

\* The bootstrapping thread is scheduled: it is never stopped for ever while
\* it has a step to take.
FairSpec == Spec /\ WF_vars(bootstrap)

\* initialize() and compile_method() under every setting of the enabling
\* flags, while bootstrap() runs.
InitLifecycle ==
  /\ UseCompiler \in BOOLEAN /\ EnableJVMCI \in BOOLEAN
  /\ UseJVMCICompiler \in BOOLEAN
  /\ UseJVMCINativeLibrary = FALSE /\ PrintBootstrap = FALSE
  /\ CompileTheWorld = FALSE
  /\ mode \in {"int", "mixed"}
  /\ objectMethods = OneMethod
  /\ Constructed

NextLifecycle ==
  \/ initialize
  \/ compile_method
  \/ bootstrap
  \/ broker

SpecLifecycle == InitLifecycle /\ [][NextLifecycle]_vars

\* force_comp_at_level_simple() called while bootstrap() runs, with and
\* without the native library.
InitPolicy ==
  /\ UseCompiler = TRUE /\ EnableJVMCI = TRUE /\ UseJVMCICompiler = TRUE
  /\ UseJVMCINativeLibrary \in BOOLEAN /\ PrintBootstrap = FALSE
  /\ CompileTheWorld = FALSE
  /\ mode = "mixed"
  /\ objectMethods = OneMethod
  /\ Constructed

NextPolicy ==
  \/ force_comp
  \/ bootstrap
  \/ broker

SpecPolicy == InitPolicy /\ [][NextPolicy]_vars

\* The increment functions called from the compile-worker threads.
InitCounters ==
  /\ UseCompiler = TRUE /\ EnableJVMCI = TRUE /\ UseJVMCICompiler = TRUE
  /\ UseJVMCINativeLibrary = FALSE /\ PrintBootstrap = FALSE
  /\ CompileTheWorld = FALSE
  /\ mode = "mixed"
  /\ objectMethods = OneMethod
  /\ Constructed

NextCounters ==
  \/ counters
  \/ initialize

SpecCounters == InitCounters /\ [][NextCounters]_vars

\* ------------------------------------------------------------------ claims
\* The positions of bootstrap() after its poll loop.
AfterLoop == {"report", "notify", "returned"}

\* The number of methods of java.lang.Object that bootstrap() submits.
RECURSIVE num_qualifying(_)
num_qualifying(ms) ==
  IF ms = <<>> THEN 0
  ELSE (IF qualifies(Head(ms)) THEN 1 ELSE 0) + num_qualifying(Tail(ms))

\* C1: outside interpreter mode, bootstrap() is past its poll loop (at the
\* summary, at the finish notification, or returned) only when its most
\* recent poll of the highest-tier queue observed size 0.
C1_ReturnsOnlyAfterEmptyPoll ==
  (mode # "int" /\ pc \in AfterLoop) => qsize = 0

\* C1 witness: bootstrap() has returned after a poll that saw pending jobs.
C1_Witness ==
  mode # "int" /\ pc = "returned" /\ saw_nonzero /\ qsize = 0 /\ external > 0

Range(f) == { f[k] : k \in DOMAIN f }

\* C3: a force_comp_at_level_simple() call that finds _bootstrapping set
\* returns false, whatever the method, the bridge and the exclusion list.
C3_FalseWhileBootstrapping ==
  (lastForce.called /\ lastForce.bootstrapping) => lastForce.result = FALSE

\* C3 witness: a call made while bootstrap() is polling, for a method whose
\* module is in the exclusion list, has returned false.
C3_Witness ==
  /\ lastForce.called /\ lastForce.bootstrapping /\ ~lastForce.nativeLibrary
  /\ lastForce.bridge = "list"
  /\ lastForce.module \in Range(lastForce.excludeModules)
  /\ lastForce.result = FALSE
  /\ pc \in {"sleep", "poll", "inner"}

\* C4 as claimed: not bootstrapping and the bridge available, the result is
\* membership of the method's module in the exclusion list; and the result is
\* false without runtime, runtime object or list.
C4_MembershipWheneverBridgeAvailable ==
  (lastForce.called /\ ~lastForce.bootstrapping) =>
    IF lastForce.bridge = "list"
      THEN lastForce.result = (lastForce.module \in Range(lastForce.excludeModules))
      ELSE lastForce.result = FALSE

\* C4 amended: not bootstrapping, UseJVMCINativeLibrary off and the bridge
\* available, the result is membership of the method's module in the
\* exclusion list, at any position; without runtime, runtime object or list
\* the result is false.
C4_MembershipUnlessNativeLibrary ==
  (lastForce.called /\ ~lastForce.bootstrapping) =>
    IF lastForce.bridge = "list" /\ ~lastForce.nativeLibrary
      THEN lastForce.result = (lastForce.module \in Range(lastForce.excludeModules))
      ELSE (lastForce.bridge # "list" => lastForce.result = FALSE)

\* C4 witness: a call outside bootstrap, without the native library, found
\* the module as the last element of a two-element list and returned true.
C4_Witness ==
  /\ lastForce.called /\ ~lastForce.bootstrapping /\ ~lastForce.nativeLibrary
  /\ lastForce.bridge = "list" /\ Len(lastForce.excludeModules) = 2
  /\ lastForce.excludeModules[1] # lastForce.module
  /\ lastForce.excludeModules[2] = lastForce.module
  /\ lastForce.result = TRUE

\* The backend is enabled: the three flags initialize() tests.
Enabled3 == UseCompiler /\ EnableJVMCI /\ UseJVMCICompiler

\* C5 as claimed: after more than one initialize() call there has been exactly
\* one transition and exactly one completed_vm_startup notification.
C5_ExactlyOneTransition ==
  initCalls > 1 => (transitions = 1 /\ vm_startup_completed = 1)

\* C5 amended: after more than one initialize() call there has been exactly
\* one transition and one notification when UseCompiler, EnableJVMCI and
\* UseJVMCICompiler are all on, and none otherwise; once the state is
\* initialized no step changes the state or notifies again.
C5_OneTransitionWhenEnabled ==
  /\ [](initCalls > 1 =>
          IF Enabled3
            THEN transitions = 1 /\ vm_startup_completed = 1
                 /\ compiler_state = "initialized"
            ELSE transitions = 0 /\ vm_startup_completed = 0
                 /\ compiler_state = "uninitialized")
  /\ [][compiler_state = "initialized" =>
          /\ compiler_state' = "initialized"
          /\ transitions' = transitions
          /\ vm_startup_completed' = vm_startup_completed]_vars

\* C5 witness: three calls on an enabled backend, one transition.
C5_Witness ==
  /\ Enabled3 /\ initCalls = 3 /\ transitions = 1 /\ vm_startup_completed = 1
  /\ compiler_state = "initialized"

\* C6: an initialize() call made with UseCompiler, EnableJVMCI or
\* UseJVMCICompiler off, or when should_perform_init() reports the
\* initialization as performed, leaves the state as it is and does not notify.
C6_DisabledInitializeIsNoOp ==
  [][(initCalls' # initCalls
        /\ (~UseCompiler \/ ~EnableJVMCI \/ ~UseJVMCICompiler
              \/ ~should_perform_init(compiler_state)))
       => (compiler_state' = compiler_state
             /\ transitions' = transitions
             /\ vm_startup_completed' = vm_startup_completed)]_vars

\* C6 witness: initialize() has been called with only UseJVMCICompiler off.
C6_Witness ==
  /\ initCalls > 0 /\ UseCompiler /\ EnableJVMCI /\ ~UseJVMCICompiler
  /\ compiler_state = "uninitialized" /\ vm_startup_completed = 0

\* C7: when no worker is inside an increment function, _methods_compiled is
\* the number of inc_methods_compiled() calls and _global_compilation_ticks
\* the number of calls of both functions; inc_global_compilation_ticks()
\* leaves _methods_compiled alone.
C7_NoLostUpdate ==
  /\ []((\A w \in Workers : wpc[w] = "idle") =>
          /\ methods_compiled = callsMC
          /\ global_compilation_ticks = callsMC + callsTicks)
  /\ [][callsTicks' # callsTicks => methods_compiled' = methods_compiled]_vars

\* C7 witness: all calls done, at least two of the first kind and one of the
\* second.
C7_Witness ==
  /\ \A w \in Workers : wpc[w] = "idle"
  /\ callsMC >= 2 /\ callsTicks >= 1
  /\ methods_compiled = callsMC
  /\ global_compilation_ticks = callsMC + callsTicks

\* The positions of bootstrap() inside its warm-up sequence.
WarmUp == {"submit", "sleep", "poll", "inner", "progress", "outer", "report"}

\* C8: _bootstrapping is set only while bootstrap() is inside its warm-up
\* sequence; it is clear before the call and after every return.
C8_FlagOnlyDuringWarmUp ==
  /\ bootstrapping => pc \in WarmUp
  /\ pc \in {"idle", "returned"} => ~bootstrapping

\* C8 witness: bootstrap() has run its loop and returned through the failed
\* finish notification, the flag clear.
C8_Witness ==
  pc = "returned" /\ slept /\ pending_exception /\ ~bootstrapping

\* C9: a compile_method() call ends in the fatal outcome and changes nothing
\* else; nothing runs after it.
C9_CompileMethodIsFatal ==
  /\ [](compileCalls > 0 => fatal)
  /\ [][compileCalls' # compileCalls =>
          /\ fatal'
          /\ UNCHANGED <<flagVars, fieldVars, bootVars, envVars,
                         vm_startup_completed, transitions, initCalls,
                         workerVars, lastForce, tty_report>>]_vars
  /\ [][~fatal]_vars

\* C9 witness: compile_method() was called on an initialized compiler in the
\* middle of bootstrap().
C9_Witness ==
  fatal /\ compileCalls = 1 /\ compiler_state = "initialized" /\ bootstrapping

\* C10: when bootstrap_finished() has failed, bootstrap() has returned with
\* the exception pending, after one notification, with the last poll at 0 and
\* _bootstrapping clear.
C10_FailurePropagates ==
  finish_failed =>
    /\ pc = "returned" /\ pending_exception
    /\ bootstrap_finished_calls = 1
    /\ qsize = 0 /\ ~bootstrapping

\* C10 witness: a failed notification after a drain of pending jobs.
C10_Witness ==
  finish_failed /\ pending_exception /\ pc = "returned" /\ saw_nonzero

\* C11: in -Xint mode bootstrap() goes from the call straight to the return:
\* _bootstrapping is never set, no job is submitted, the queue is never
\* polled, there is no sleep, no progress marker, no bootstrap_finished()
\* call, and CompileTheWorld keeps its value.
C11_InterpreterModeNoEffect ==
  mode = "int" =>
    /\ pc \in {"idle", "returned"}
    /\ ~bootstrapping /\ submitted = <<>> /\ qsize = NoPoll /\ ~slept
    /\ ~saw_nonzero /\ ~saw_handled /\ dots = 0
    /\ bootstrap_finished_calls = 0 /\ ~pending_exception
    /\ (pc = "returned" => CompileTheWorld = ctw_at_entry)

\* C11 witness: bootstrap() has returned in -Xint mode, with qualifying
\* methods in the table and CompileTheWorld on.
C11_Witness ==
  /\ mode = "int" /\ pc = "returned" /\ CompileTheWorld
  /\ Len(objectMethods) > 0 /\ qualifies(objectMethods[1])

\* C12: a force_comp_at_level_simple() call made with UseJVMCINativeLibrary on
\* and _bootstrapping clear returns false for every method, bridge and
\* exclusion list, and does not reach the runtime bridge.
C12_FalseWithNativeLibrary ==
  (lastForce.called /\ lastForce.nativeLibrary /\ ~lastForce.bootstrapping)
    => (lastForce.result = FALSE /\ ~lastForce.queried)

\* C12 witness: such a call, for a method whose module is in the exclusion
\* list, has returned false.
C12_Witness ==
  /\ lastForce.called /\ lastForce.nativeLibrary /\ ~lastForce.bootstrapping
  /\ lastForce.bridge = "list"
  /\ lastForce.module \in Range(lastForce.excludeModules)
  /\ lastForce.result = FALSE /\ ~lastForce.queried

\* The positions of bootstrap() between its entry and its return.
Running == WarmUp \cup {"notify"}

\* C13: CompileTheWorld is off at every position of bootstrap() from the
\* submission loop to the finish notification, and once bootstrap() has
\* returned, by any path, it has the value it had at entry.
C13_CompileTheWorldScoped ==
  /\ pc \in Running => ~CompileTheWorld
  /\ pc = "returned" => CompileTheWorld = ctw_at_entry

\* C13 witness: bootstrap() was entered with CompileTheWorld on, ran its
\* loop, and returned through the failed notification with the flag on again.
C13_Witness ==
  /\ pc = "returned" /\ mode # "int" /\ finish_failed /\ slept
  /\ ctw_at_entry /\ CompileTheWorld

\* C14: outside -Xint mode, bootstrap() is past the first-round wait, and so
\* past its poll loop, only if one of its own polls has read the handled flag
\* as set or has read a non-zero queue size.
C14_NoExitOnUnhandledEmptyQueue ==
  (mode # "int" /\ pc \in {"progress", "outer"} \cup AfterLoop)
    => (saw_handled \/ saw_nonzero)

\* C14 witness: bootstrap() submitted a job, polled an empty queue at least
\* once without leaving, and left the loop on the handled flag alone.
C14_Witness ==
  /\ mode # "int" /\ pc \in AfterLoop /\ Len(submitted) > 0
  /\ saw_handled /\ ~saw_nonzero /\ qsize = 0

\* C15: outside -Xint mode, with the bootstrapping thread fairly scheduled, if
\* the handled flag is eventually set or a poll eventually reads a non-zero
\* queue size, and the queue eventually is empty for good, then bootstrap()
\* eventually has left the loop, cleared _bootstrapping and called
\* bootstrap_finished().
C15_EventuallyFinishes ==
  (/\ mode # "int"
   /\ <>(bootstrap_compilation_request_handled \/ saw_nonzero)
   /\ <>[](queue = 0))
    => <>(pc = "returned" /\ ~bootstrapping /\ bootstrap_finished_calls = 1)

\* C15 witness: bootstrap() has finished after a drain: jobs were seen, the
\* flag was set, the queue is empty, and the notification succeeded.
C15_Witness ==
  /\ mode # "int" /\ pc = "returned" /\ ~bootstrapping
  /\ bootstrap_finished_calls = 1 /\ ~finish_failed
  /\ bootstrap_compilation_request_handled /\ saw_nonzero /\ queue = 0

\* The indices, among the first n methods of java.lang.Object, of the methods
\* that are not native, not static and not an initializer.
Baseline(n) ==
  { k \in 1..n : /\ objectMethods[k].is_native = FALSE
                 /\ objectMethods[k].is_static = FALSE
                 /\ objectMethods[k].is_initializer = FALSE }

\* C16: the jobs bootstrap() has requested are, in order and once each, the
\* baseline methods among those it has visited, all of them once the poll loop
\* is reached; each request is at CompLevel_full_optimization with reason
\* Reason_Bootstrap; and every request is made with _bootstrapping set, before
\* the first sleep and the first poll.
C16_OneJobPerBaselineMethod ==
  /\ [](/\ Len(submitted) = Cardinality(Baseline(i))
        /\ \A j \in 1..Len(submitted) :
             /\ submitted[j].method \in Baseline(i)
             /\ submitted[j].comp_level = CompLevel_full_optimization
             /\ submitted[j].reason = "Reason_Bootstrap"
        /\ \A j, k \in 1..Len(submitted) :
             j < k => submitted[j].method < submitted[k].method
        /\ (mode # "int" /\ pc \in (Running \cup {"returned"}) \ {"submit"})
             => i = Len(objectMethods))
  /\ [][submitted' # submitted =>
          bootstrapping /\ pc = "submit" /\ ~slept /\ qsize = NoPoll]_vars

\* C16 witness: of two methods, a static one and a plain one, exactly the
\* plain one was requested, and bootstrap() went on to poll.
C16_Witness ==
  /\ Len(objectMethods) = 2
  /\ objectMethods[1].is_static /\ qualifies(objectMethods[2])
  /\ Len(submitted) = 1 /\ submitted[1].method = 2
  /\ slept /\ qsize # NoPoll

\* C17: bootstrap_finished() is called at most once; each call is made from
\* the position after the poll loop, with _bootstrapping already clear and the
\* last poll at 0; and a bootstrap() that has returned outside -Xint mode has
\* made exactly one call.
C17_NotifiedOnceAfterLoop ==
  /\ [](bootstrap_finished_calls <= 1)
  /\ []((mode # "int" /\ pc = "returned") => bootstrap_finished_calls = 1)
  /\ [](bootstrap_finished_calls > 0 => (pc = "returned" /\ ~bootstrapping))
  /\ [][bootstrap_finished_calls' # bootstrap_finished_calls =>
          /\ bootstrap_finished_calls' = bootstrap_finished_calls + 1
          /\ pc = "notify" /\ ~bootstrapping /\ qsize = 0
          /\ (saw_handled \/ saw_nonzero)]_vars

\* C17 witness: one successful notification, after a drain of the submitted
\* jobs.
C17_Witness ==
  /\ mode # "int" /\ pc = "returned" /\ bootstrap_finished_calls = 1
  /\ ~finish_failed /\ Len(submitted) = 2 /\ saw_nonzero /\ ~bootstrapping

\* The number of threads between the two increments of inc_methods_compiled().
InFlight == Cardinality({ w \in Workers : wpc[w] = "ticks" })

\* C18 as claimed: _global_compilation_ticks is never below _methods_compiled.
C18_TicksNeverBelowMethods ==
  global_compilation_ticks >= methods_compiled

\* C18 amended: the two increments of inc_methods_compiled() are two atomic
\* steps, the one of _methods_compiled first: _global_compilation_ticks is
\* below _methods_compiled by at most the number of threads between the two,
\* and not below it when no thread is inside inc_methods_compiled().
C18_TicksLagByCallsInFlight ==
  /\ global_compilation_ticks + InFlight >= methods_compiled
  /\ InFlight = 0 => global_compilation_ticks >= methods_compiled

\* C18 witness: both workers are between the two increments.
C18_Witness ==
  /\ InFlight = 2
  /\ methods_compiled = global_compilation_ticks + 2

\* Every operation of the compiler, interleaved, on an enabled backend.
InitAll ==
  /\ UseCompiler = TRUE /\ EnableJVMCI = TRUE /\ UseJVMCICompiler = TRUE
  /\ UseJVMCINativeLibrary = FALSE /\ PrintBootstrap = FALSE
  /\ CompileTheWorld = FALSE
  /\ mode = "mixed"
  /\ objectMethods = OneMethod
  /\ Constructed

\* The calls made so far by the threads around bootstrap().
Ops ==
  initCalls + callsMC + callsTicks + external
    + (IF lastForce.called THEN 1 ELSE 0)
    + (IF tty_report # "none" THEN 1 ELSE 0)

\* A new call is made while fewer than MaxOps have been; a call under way, the
\* broker's workers and bootstrap() itself always go on.
NextAll ==
  \/ bootstrap
  \/ worker_remove
  \/ set_bootstrap_compilation_request_handled
  \/ compile_method
  \/ \E w \in Workers : inc_methods_compiled_2(w)
  \/ /\ Ops < MaxOps
     /\ \/ external_submit
        \/ initialize
        \/ \E w \in Workers : inc_methods_compiled_1(w)
        \/ \E w \in Workers : inc_global_compilation_ticks(w)
        \/ force_comp
        \/ print_timers
        \/ print_hosted_timers

SpecAll == InitAll /\ [][NextAll]_vars

\* C19: _methods_compiled and _global_compilation_ticks are 0 after
\* construction, and no step of any operation makes either of them smaller.
C19_CountersMonotonic ==
  /\ methods_compiled = 0 /\ global_compilation_ticks = 0
  /\ [][/\ methods_compiled' >= methods_compiled
        /\ global_compilation_ticks' >= global_compilation_ticks]_vars

\* C19 witness: the counters have grown, and initialize() and a whole
\* bootstrap() have run beside the increment.
C19_Witness ==
  /\ methods_compiled = 1 /\ global_compilation_ticks = 1
  /\ pc = "returned" /\ compiler_state = "initialized"

\* The values _methods_compiled can have when bootstrap() is called: nothing
\* compiled yet, or compilations completed earlier, short of a multiple of 100.
EarlierCompilations == {0, ProgressUnit - 2, 2 * ProgressUnit - 1}

\* bootstrap() with and without PrintBootstrap, after any of these numbers of
\* completed inc_methods_compiled() calls, while workers go on calling the
\* increment functions; callsMC and callsTicks count the calls from here on.
InitProgress ==
  /\ UseCompiler = TRUE /\ EnableJVMCI = TRUE /\ UseJVMCICompiler = TRUE
  /\ UseJVMCINativeLibrary = FALSE /\ PrintBootstrap \in BOOLEAN
  /\ CompileTheWorld = FALSE
  /\ mode = "mixed"
  /\ objectMethods = OneMethod
  /\ bootstrapping = FALSE
  /\ bootstrap_compilation_request_handled = FALSE
  /\ compiler_state = "uninitialized"
  /\ methods_compiled \in EarlierCompilations
  /\ global_compilation_ticks = methods_compiled
  /\ AtRest

NextProgress ==
  \/ bootstrap
  \/ broker
  \/ counters

SpecProgress == InitProgress /\ [][NextProgress]_vars

\* C20 as claimed: when the marker loop of a poll round ends, the markers
\* printed so far are one per 100 methods compiled since the poll loop began
\* with PrintBootstrap on, and none with it off.
C20_MarkersSinceLoopStart ==
  [][(pc = "progress" /\ pc' = "outer") =>
       dots' = IF PrintBootstrap
                 THEN (methods_compiled - methods_at_loop_start) \div ProgressUnit
                 ELSE 0]_vars

\* C20 amended: when the marker loop of a poll round ends, the markers printed
\* so far are one per 100 in _methods_compiled itself, as read there, whatever
\* its value was when the poll loop began, with PrintBootstrap on; with it off
\* no marker is ever printed.
C20_MarkersPerHundredCompiled ==
  /\ [](dots = z /\ (~PrintBootstrap => dots = 0))
  /\ [][(pc = "progress" /\ pc' = "outer") =>
          dots' = IF PrintBootstrap
                    THEN methods_compiled \div ProgressUnit
                    ELSE 0]_vars

\* C20 witness: a round has ended with two markers printed although one
\* method was compiled since the loop began.
C20_Witness ==
  /\ PrintBootstrap /\ pc = "outer" /\ dots = 2
  /\ methods_at_loop_start = 2 * ProgressUnit - 1
  /\ methods_compiled = 2 * ProgressUnit

====
